---- MODULE Spec2Model ----
(***************************************************************************)
(* Model of the crossword constraint solver of generate.py                 *)
(* (class CrosswordCreator): node consistency, AC-3 and the backtracking   *)
(* search of solve(), with the consistency checker as a pure function.     *)
(*                                                                         *)
(* Words are sequences of letters; Python's 0-based word[k] is w[k + 1].   *)
(* Wherever Python iterates a set or a dict of slots (the order depends on *)
(* the hash seed) the model takes every order.                             *)
(***************************************************************************)
EXTENDS Integers, Sequences, FiniteSets, TLC, Bags

VARIABLES
    slots,       \* self.crossword.variables: the slots of the grid
    words,       \* self.crossword.words: the vocabulary
    domains,     \* self.domains: slot -> set of words
    arcs,        \* the local list `arcs` of ac3 (a queue of ordered slot pairs)
    rev,         \* the revise call of the last ac3 step ({} before the first)
    ac3ret,      \* the value ac3 returned: "pending", "True" or "False"
    assignment,  \* the dict `assignment` shared by every backtrack frame
    stack,       \* the active backtrack frames, each inside its for loop
    cons,        \* the outcome of the last consistent call
    ret,         \* the value the last finished backtrack call returned
    result,      \* the value solve returned
    pc           \* the position of the program

vars == <<slots, words, domains, arcs, rev, ac3ret, assignment, stack, cons, ret, result, pc>>

-----------------------------------------------------------------------------
(* Bounds of the model *)

\* the largest vocabulary handed to the solver
MaxVocab == 3

\* the longest word of a vocabulary
MaxWordLen == 2

-----------------------------------------------------------------------------
(* The inputs: grid topology and vocabulary *)

Letters == {"a", "b"}

WordUniverse == UNION {[1..n -> Letters] : n \in 1..MaxWordLen}

Vocabularies == {V \in SUBSET WordUniverse : Cardinality(V) \in 1..MaxVocab}

OneWordVocabularies == {V \in Vocabularies : Cardinality(V) = 1}

ACROSS == "across"
DOWN == "down"

\* Variable(i, j, direction, length)
Variable(i, j, direction, length) ==
    [i |-> i, j |-> j, direction |-> direction, length |-> length]

\* the cell of slot v at offset k (0-based)
Cell(v, k) ==
    <<v.i + (IF v.direction = DOWN THEN k ELSE 0),
      v.j + (IF v.direction = ACROSS THEN k ELSE 0)>>

None == "None"

\* crossword.overlaps[x, y]: None, or the offsets <<in x, in y>> of the shared cell
Overlap(x, y) ==
    LET shared == {p \in (0..(x.length - 1)) \X (0..(y.length - 1)) :
                       Cell(x, p[1]) = Cell(y, p[2])}
    IN  IF shared = {} THEN None ELSE CHOOSE p \in shared : TRUE

\* crossword.neighbors(x)
Neighbors(x) == {v \in slots : v /= x /\ Overlap(v, x) /= None}

\* the grid structures the solver is run on
GridSingle  == {Variable(0, 0, ACROSS, 2)}
GridApart   == {Variable(0, 0, ACROSS, 2), Variable(2, 0, ACROSS, 2)}
GridCross   == {Variable(0, 0, ACROSS, 2), Variable(0, 0, DOWN, 2)}
GridCrossLo == {Variable(1, 0, ACROSS, 2), Variable(0, 0, DOWN, 2)}
GridPath    == {Variable(0, 0, ACROSS, 2), Variable(0, 0, DOWN, 2),
                Variable(0, 1, DOWN, 2)}
GridSquare  == {Variable(0, 0, ACROSS, 2), Variable(1, 0, ACROSS, 2),
                Variable(0, 0, DOWN, 2), Variable(0, 1, DOWN, 2)}

\* the grids whose overlap graph has no cycle, and the one that has a cycle
Grids == {GridSingle, GridApart, GridCross, GridCrossLo, GridPath}
CyclicGrids == {GridSquare}

-----------------------------------------------------------------------------
(* Helpers *)

\* the sequences that list every element of S exactly once
Perms(S) ==
    {p \in [1..Cardinality(S) -> S] : \A a \in S : \E k \in DOMAIN p : p[k] = a}

\* word[k] of Python: TRUE when the index is in range
InRange(w, k) == k + 1 \in DOMAIN w

\* the comparison with the two offsets of the overlap exchanged
AgreeSwapped(wx, wy, o) == wx[o[2] + 1] = wy[o[1] + 1]

\* word_x[overlap[0]] == word_y[overlap[1]]
Agree(wx, wy, o) == wx[o[1] + 1] = wy[o[2] + 1]

-----------------------------------------------------------------------------
(* enforce_node_consistency *)

\* the filter with <= for ==: it keeps the words that are too short
NodeFilterAtMost(v, ws) == {w \in ws : Len(w) <= v.length}

\* `word for word in words if len(word) == value.length`
NodeFilter(v, ws) == {w \in ws : Len(w) = v.length}

-----------------------------------------------------------------------------
(* revise *)

\* valid_words that collects the matching words of y in place of those of x
ValidWordsOfY(x, y, dom) ==
    LET o == Overlap(x, y)
    IN  {wy \in dom[y] : \E wx \in dom[x] : Agree(wx, wy, o)}

\* valid_words of revise(x, y)
ValidWords(x, y, dom) ==
    LET o == Overlap(x, y)
    IN  {wx \in dom[x] : \E wy \in dom[y] : Agree(wx, wy, o)}

\* revise(x, y): the domain store after the call
ReviseDomains(x, y, dom) ==
    IF Overlap(x, y) /= None /\ dom[x] /= ValidWords(x, y, dom)
    THEN [dom EXCEPT ![x] = ValidWords(x, y, dom)]
    ELSE dom

\* revise that returns True whenever the slots overlap
ReviseReturnsOnOverlap(x, y, dom) == Overlap(x, y) /= None

\* revise(x, y): the value returned
ReviseReturns(x, y, dom) ==
    Overlap(x, y) /= None /\ dom[x] /= ValidWords(x, y, dom)

-----------------------------------------------------------------------------
(* ac3 *)

\* the initial list of all arcs, for one iteration order p of self.domains
AllArcs(p) ==
    LET n == Len(p)
        pairs == [k \in 1..(n * n) |-> <<p[((k - 1) \div n) + 1], p[((k - 1) % n) + 1]>>]
    IN  SelectSeq(pairs, LAMBDA a : a[1] /= a[2])

\* ac3 that returns False after any revision, the emptiness test forgotten
Ac3FailsOnRevision(revised, domx) == revised

\* `if self.revise(x, y) and not self.domains[x]: return False`
Ac3Fails(revised, domx) == revised /\ domx = {}

\* ac3 without the loop that inserts arcs
RequeuedNothing(x, y) == {}

\* the loop over neighbors(y) - {x}: the neighbours of the wrong slot
RequeuedOfOther(x, y) == Neighbors(y) \ {x}

\* the slots z whose arc (z, x) is inserted after arc (x, y) was popped
Requeued(x, y) == Neighbors(x) \ {y}

\* arcs.insert(0, (z, x)) for z in the order zs
InsertFront(q, zs, x) ==
    [k \in 1..Len(zs) |-> <<zs[Len(zs) + 1 - k], x>>] \o q

-----------------------------------------------------------------------------
(* The solve state machine *)

\* dict()
EmptyDict == [v \in {} |-> None]

\* the values a call returns: not returned yet, None, or a dict
Pending == [kind |-> "pending", dict |-> EmptyDict]
ReturnNone == [kind |-> "None", dict |-> EmptyDict]
ReturnDict(a) == [kind |-> "dict", dict |-> a]

\* CrosswordCreator(crossword), for a grid of gs and a vocabulary of vs
Construct(gs, vs) ==
    /\ slots \in gs
    /\ words \in vs
    /\ domains = [v \in slots |-> words]
    /\ arcs = <<>>
    /\ rev = {}
    /\ ac3ret = "pending"
    /\ stack = <<>>
    /\ cons = None
    /\ ret = Pending
    /\ result = Pending

\* the creator as solve() finds it
InitOn(gs, vs) ==
    /\ Construct(gs, vs)
    /\ assignment = EmptyDict
    /\ pc = "node"

\* solve() on a grid without a cycle and any vocabulary, or on the grid with a
\* cycle and a vocabulary of one word
Init ==
    \/ InitOn(Grids, Vocabularies)
    \/ InitOn(CyclicGrids, OneWordVocabularies)

EnforceNodeConsistency ==
    /\ pc = "node"
    /\ domains' = [v \in slots |-> NodeFilter(v, domains[v])]
    /\ pc' = "ac3_begin"
    /\ UNCHANGED <<slots, words, arcs, rev, ac3ret, assignment, stack, cons, ret, result>>

Ac3Begin ==
    /\ pc = "ac3_begin"
    /\ \E p \in Perms(slots) : arcs' = AllArcs(p)
    /\ pc' = "ac3_loop"
    /\ UNCHANGED <<slots, words, domains, rev, ac3ret, assignment, stack, cons, ret, result>>

\* one pass of the while loop that takes the arc at position k of the queue;
\* ac3 is inside its loop at `loop` and returns to `after`
Ac3Pass(k, loop, after) ==
    /\ pc = loop
    /\ k \in DOMAIN arcs
    /\ LET x == arcs[k][1]
           y == arcs[k][2]
           popped == SubSeq(arcs, 1, k - 1) \o SubSeq(arcs, k + 1, Len(arcs))
           revised == ReviseReturns(x, y, domains)
           dom == ReviseDomains(x, y, domains)
       IN  /\ domains' = dom
           /\ rev' = {[x |-> x, y |-> y, ret |-> revised]}
           /\ IF Ac3Fails(revised, dom[x])
              THEN /\ arcs' = popped
                   /\ ac3ret' = "False"
                   /\ pc' = after
              ELSE /\ \E zs \in Perms(Requeued(x, y)) : arcs' = InsertFront(popped, zs, x)
                   /\ ac3ret' = ac3ret
                   /\ pc' = pc
    /\ UNCHANGED <<slots, words, assignment, stack, cons, ret, result>>

\* the queue is empty: `return True`
Ac3Return(loop, after) ==
    /\ pc = loop
    /\ arcs = <<>>
    /\ ac3ret' = "True"
    /\ pc' = after
    /\ UNCHANGED <<slots, words, domains, arcs, rev, assignment, stack, cons, ret, result>>

\* x, y = arcs.pop(): the pass takes the last arc
Ac3Step == Ac3Pass(Len(arcs), "ac3_loop", "bt_call")

Ac3Done == Ac3Return("ac3_loop", "bt_call")

-----------------------------------------------------------------------------
(* assignment_complete and consistent *)

\* the test as len(assignment) > len(self.domains): never true
AssignmentCompleteBeyond(a) == Cardinality(DOMAIN a) > Cardinality(DOMAIN domains)

\* assignment_complete(assignment)
AssignmentComplete(a) == DOMAIN a = DOMAIN domains

\* words_fit_board
WordsFitBoard(a) == \A v \in DOMAIN a : Len(a[v]) = v.length

\* the repetition test with the set() forgotten: it compares a length with itself
NoRepetitionUnchecked(a) == Cardinality(DOMAIN a) = Cardinality(DOMAIN a)

\* repetition: len(assignment.values()) == len(set(assignment.values()))
NoRepetition(a) == Cardinality(DOMAIN a) = Cardinality({a[v] : v \in DOMAIN a})

\* the (word, neighbour) pairs the generator of words_no_conflict visits
ConflictPairs(a) ==
    {p \in (DOMAIN a) \X (DOMAIN a) : p[2] \in Neighbors(p[1])}

\* indexing either word of the pair raises IndexError
PairRaises(a, p) ==
    LET o == Overlap(p[2], p[1])
    IN  ~InRange(a[p[2]], o[1]) \/ ~InRange(a[p[1]], o[2])

\* both characters of the pair exist and differ
PairDiffers(a, p) ==
    LET o == Overlap(p[2], p[1])
    IN  /\ ~PairRaises(a, p)
        /\ a[p[2]][o[1] + 1] /= a[p[1]][o[2] + 1]

\* consistent(assignment): the outcomes of the call.  all() stops at the first
\* pair that differs, so an IndexError is raised when a raising pair is visited
\* before every differing one; the visiting order follows the dict and set
\* orders, and any pair can come first.
ConsistentOutcomes(a) ==
    LET raising == \E p \in ConflictPairs(a) : PairRaises(a, p)
        differing == \E p \in ConflictPairs(a) : PairDiffers(a, p)
        value == IF NoRepetition(a) /\ WordsFitBoard(a) /\ ~differing
                 THEN "True" ELSE "False"
    IN  (IF raising THEN {"IndexError"} ELSE {})
            \cup (IF ~raising \/ differing THEN {value} ELSE {})

-----------------------------------------------------------------------------
(* select_unassigned_variable and order_domain_values *)

\* the key with the degree negated as well: ties go to the lowest degree
KeyLessLowDegree(v, u) ==
    LET dv == Cardinality(domains[v])
        du == Cardinality(domains[u])
    IN  \/ dv > du
        \/ dv = du /\ Cardinality(Neighbors(v)) > Cardinality(Neighbors(u))

\* the key (-len(domain), degree) of slot v is below that of slot u
KeyLess(v, u) ==
    LET dv == Cardinality(domains[v])
        du == Cardinality(domains[u])
    IN  \/ dv > du
        \/ dv = du /\ Cardinality(Neighbors(v)) < Cardinality(Neighbors(u))

\* the selector without `if domain[0] not in assignment`
SelectAnyVariable(a) ==
    {v \in DOMAIN domains : \A u \in DOMAIN domains : ~KeyLess(v, u)}

\* select_unassigned_variable(assignment): the slots max() can return
SelectUnassignedVariable(a) ==
    LET unassigned == {v \in DOMAIN domains : v \notin DOMAIN a}
    IN  {v \in unassigned : \A u \in unassigned : ~KeyLess(v, u)}

\* rule_out_per_word[word] of order_domain_values(var, assignment)
RuleOut(var, word, a) ==
    Cardinality({p \in Neighbors(var) \X WordUniverse :
        /\ p[1] \notin DOMAIN a
        /\ p[2] \in domains[p[1]]
        /\ LET o == Overlap(p[1], var)
           IN  p[2][o[1] + 1] /= word[o[2] + 1]})

\* rule_out_per_word
RuleOutPerWord(var, a) == [w \in domains[var] |-> RuleOut(var, w, a)]

\* sorted() with reverse=True: the highest count first
NextValuesDescending(cnt, rest) == {w \in rest : \A u \in rest : cnt[w] >= cnt[u]}

\* the values sorted() can put next among the untried values `rest`
NextValues(cnt, rest) == {w \in rest : \A u \in rest : cnt[w] <= cnt[u]}

-----------------------------------------------------------------------------
(* backtrack *)

\* a frame of backtrack inside its for loop: the selected slot, the rule-out
\* counts computed when the loop began and the values not tried yet; `entry`
\* records the assignment the call was entered with (the program keeps no
\* such copy)
Frame(var, a) ==
    [var |-> var, cnt |-> RuleOutPerWord(var, a), rest |-> domains[var],
     entry |-> a]

Top == stack[Len(stack)]

Pop(st) == SubSeq(st, 1, Len(st) - 1)

\* assignment[var] = value
Assign(a, var, value) ==
    [v \in (DOMAIN a) \cup {var} |-> IF v = var THEN value ELSE a[v]]

\* del assignment[var]
Delete(a, var) == [v \in (DOMAIN a) \ {var} |-> a[v]]

\* `if result:` the truth value of what backtrack returned
Truthy(r) == r.kind = "dict" /\ DOMAIN r.dict /= {}

\* backtrack(assignment) is entered: return a complete assignment, or select
\* a slot and order its values
BtEnter ==
    /\ pc = "bt_call"
    /\ IF AssignmentComplete(assignment)
       THEN /\ ret' = ReturnDict(assignment)
            /\ stack' = stack
            /\ pc' = "bt_ret"
       ELSE IF SelectUnassignedVariable(assignment) = {}
       THEN \* max() of an empty sequence raises ValueError
            /\ pc' = "raised"
            /\ UNCHANGED <<stack, ret>>
       ELSE /\ \E var \in SelectUnassignedVariable(assignment) :
                    stack' = Append(stack, Frame(var, assignment))
            /\ ret' = ret
            /\ pc' = "bt_loop"
    /\ UNCHANGED <<slots, words, domains, arcs, rev, ac3ret, assignment, cons, result>>

\* one pass of the for loop: assign the next value and check consistency
BtTry ==
    /\ pc = "bt_loop"
    /\ Top.rest /= {}
    /\ \E value \in NextValues(Top.cnt, Top.rest) :
           LET a == Assign(assignment, Top.var, value)
           IN  /\ assignment' = a
               /\ stack' = [stack EXCEPT ![Len(stack)].rest = @ \ {value}]
               /\ \E c \in ConsistentOutcomes(a) :
                      /\ cons' = c
                      /\ pc' = CASE c = "True" -> "bt_call"
                                 [] c = "False" -> "bt_loop"
                                 [] OTHER -> "raised"
    /\ UNCHANGED <<slots, words, domains, arcs, rev, ac3ret, ret, result>>

\* the for loop is over: `return None`
BtExhausted ==
    /\ pc = "bt_loop"
    /\ Top.rest = {}
    /\ stack' = Pop(stack)
    /\ ret' = ReturnNone
    /\ pc' = "bt_ret"
    /\ UNCHANGED <<slots, words, domains, arcs, rev, ac3ret, assignment, cons, result>>

\* a backtrack call returned: to solve, or to the frame that called it
BtReturn ==
    /\ pc = "bt_ret"
    /\ IF stack = <<>>
       THEN /\ result' = ret
            /\ pc' = "done"
            /\ UNCHANGED <<stack, assignment>>
       ELSE IF Truthy(ret)
       THEN /\ stack' = Pop(stack)
            /\ UNCHANGED <<result, pc, assignment>>
       ELSE /\ assignment' = Delete(assignment, Top.var)
            /\ pc' = "bt_loop"
            /\ UNCHANGED <<result, stack>>
    /\ UNCHANGED <<slots, words, domains, arcs, rev, ac3ret, cons, ret>>

Next ==
    \/ EnforceNodeConsistency
    \/ Ac3Begin
    \/ Ac3Step
    \/ Ac3Done
    \/ BtEnter
    \/ BtTry
    \/ BtExhausted
    \/ BtReturn

Spec == Init /\ [][Next]_vars

\* the program is sequential: it takes its next step whenever it has one
FairSpec == Spec /\ WF_vars(Next)

-----------------------------------------------------------------------------
(* consistent as a function of any assignment *)

\* the partial and complete assignments of vocabulary words to slots
Assignments == UNION {[S -> words] : S \in SUBSET slots}

\* a creator as constructed, and an assignment handed to consistent
ConsInit ==
    /\ Construct(Grids, Vocabularies)
    /\ assignment \in Assignments
    /\ pc = "consistent_call"

\* consistent(assignment)
ConsistentCall ==
    /\ pc = "consistent_call"
    /\ cons' \in ConsistentOutcomes(assignment)
    /\ pc' = "consistent_done"
    /\ UNCHANGED <<slots, words, domains, arcs, rev, ac3ret, assignment, stack, ret, result>>

ConsSpec == ConsInit /\ [][ConsistentCall]_vars

-----------------------------------------------------------------------------
(* ac3 called with a list of arcs *)

\* the longest list of arcs handed to ac3
MaxArcs == 2

\* the lists of at most MaxArcs arcs between different slots of S
ArcLists(S) ==
    UNION {[1..n -> {a \in S \X S : a[1] /= a[2]}] : n \in 0..MaxArcs}

\* a grid where a revision has to be passed on: the across slot crosses the
\* end of a down slot and a down slot of one cell
GridChain == {Variable(1, 0, ACROSS, 2), Variable(0, 0, DOWN, 2),
              Variable(1, 1, DOWN, 1)}

\* the grids ac3 is run on by itself
Ac3Grids == Grids \cup {GridChain}

\* a creator after enforce_node_consistency
NodeConsistentCreator ==
    /\ slots \in Ac3Grids
    /\ words \in Vocabularies
    /\ domains = [v \in slots |-> NodeFilter(v, words)]
    /\ rev = {}
    /\ ac3ret = "pending"
    /\ assignment = EmptyDict
    /\ stack = <<>>
    /\ cons = None
    /\ ret = Pending
    /\ result = Pending

\* ac3(arcs) is about to be called with the list `arcs`
ArcsInit ==
    /\ NodeConsistentCreator
    /\ arcs \in ArcLists(slots)
    /\ pc = "ac3_call"

\* `if not arcs:` for a list: the empty list is replaced by all arcs
Ac3BeginWith ==
    /\ pc = "ac3_call"
    /\ IF arcs = <<>>
       THEN \E p \in Perms(slots) : arcs' = AllArcs(p)
       ELSE arcs' = arcs
    /\ pc' = "ac3_loop"
    /\ UNCHANGED <<slots, words, domains, rev, ac3ret, assignment, stack, cons, ret, result>>

\* the call of ac3 alone; it is over when ac3ret is set
ArcsNext ==
    \/ Ac3BeginWith
    \/ Ac3Step
    \/ Ac3Done

ArcsSpec == ArcsInit /\ [][ArcsNext]_vars

-----------------------------------------------------------------------------
(* ac3 run twice *)

\* ac3() is about to be called after enforce_node_consistency
Ac3Init ==
    /\ NodeConsistentCreator
    /\ arcs = <<>>
    /\ pc = "ac3_begin"

\* ac3 returned True and is called again
Ac3Again ==
    /\ pc = "bt_call"
    /\ ac3ret = "True"
    /\ \E p \in Perms(slots) : arcs' = AllArcs(p)
    /\ ac3ret' = "pending"
    /\ pc' = "ac3_loop_again"
    /\ UNCHANGED <<slots, words, domains, rev, assignment, stack, cons, ret, result>>

Ac3AgainStep == Ac3Pass(Len(arcs), "ac3_loop_again", "ac3_twice")

Ac3AgainDone == Ac3Return("ac3_loop_again", "ac3_twice")

IdemNext ==
    \/ Ac3Begin
    \/ Ac3Step
    \/ Ac3Done
    \/ Ac3Again
    \/ Ac3AgainStep
    \/ Ac3AgainDone

IdemSpec == Ac3Init /\ [][IdemNext]_vars

-----------------------------------------------------------------------------
(* ac3 with the arcs taken in any order *)

\* the queue holds all arcs; it is kept as a bag, since the place of an arc
\* in the queue does not matter when any arc can be taken
Ac3BeginAny ==
    /\ pc = "ac3_begin"
    /\ arcs' = SetToBag({a \in slots \X slots : a[1] /= a[2]})
    /\ pc' = "ac3_loop"
    /\ UNCHANGED <<slots, words, domains, rev, ac3ret, assignment, stack, cons, ret, result>>

\* a pass of the while loop that takes any arc of the queue (the call of
\* revise is not recorded in rev)
Ac3StepAny ==
    /\ pc = "ac3_loop"
    /\ \E a \in BagToSet(arcs) :
           LET x == a[1]
               y == a[2]
               popped == arcs (-) SetToBag({a})
               revised == ReviseReturns(x, y, domains)
               dom == ReviseDomains(x, y, domains)
           IN  /\ domains' = dom
               /\ IF Ac3Fails(revised, dom[x])
                  THEN /\ arcs' = popped
                       /\ ac3ret' = "False"
                       /\ pc' = "bt_call"
                  ELSE /\ arcs' = popped (+) SetToBag({<<z, x>> : z \in Requeued(x, y)})
                       /\ ac3ret' = ac3ret
                       /\ pc' = pc
    /\ UNCHANGED <<slots, words, rev, assignment, stack, cons, ret, result>>

\* the queue is empty: `return True`
Ac3DoneAny ==
    /\ pc = "ac3_loop"
    /\ arcs = EmptyBag
    /\ ac3ret' = "True"
    /\ pc' = "bt_call"
    /\ UNCHANGED <<slots, words, domains, arcs, rev, assignment, stack, cons, ret, result>>

AnyOrderNext ==
    \/ Ac3BeginAny
    \/ Ac3StepAny
    \/ Ac3DoneAny

\* the creator of Ac3Init with the empty queue as a bag
AnyOrderInit ==
    /\ NodeConsistentCreator
    /\ arcs = EmptyBag
    /\ pc = "ac3_begin"

AnyOrderSpec == AnyOrderInit /\ [][AnyOrderNext]_vars

-----------------------------------------------------------------------------
(* What a filling of the grid must satisfy, stated from the grid alone *)

\* a complete, consistent assignment: every slot has a word of its length, no
\* word is used twice and overlapping slots agree on the shared cell
IsSolution(a) ==
    /\ DOMAIN a = slots
    /\ \A v \in slots : a[v] \in words /\ Len(a[v]) = v.length
    /\ \A u, v \in slots : u /= v => a[u] /= a[v]
    /\ \A u, v \in slots :
           (u /= v /\ Overlap(u, v) /= None) =>
               a[u][Overlap(u, v)[1] + 1] = a[v][Overlap(u, v)[2] + 1]

Solutions == {a \in [slots -> words] : IsSolution(a)}

\* every word of every domain has a supporting word in each neighbour's domain
ArcConsistent ==
    \A x \in slots : \A y \in Neighbors(x) : \A w \in domains[x] :
        \E v \in domains[y] :
            w[Overlap(x, y)[1] + 1] = v[Overlap(x, y)[2] + 1]

-----------------------------------------------------------------------------
(* C1 *)

\* C1: when solve returns, the result is None or a complete, consistent
\* assignment, and it is None when the grid has no valid filling.
C1_SolveSound ==
    pc = "done" =>
        /\ result.kind \in {"None", "dict"}
        /\ result.kind = "dict" => IsSolution(result.dict)
        /\ Solutions = {} => result.kind = "None"

\* solve returned a filling of a grid with overlapping slots
C1_Witness ==
    /\ pc = "done"
    /\ result.kind = "dict"
    /\ \E v \in slots : Neighbors(v) /= {}

(* C2 *)

\* C2: when a complete, consistent assignment exists, solve returns an
\* assignment and never None.
C2_SolveComplete ==
    (pc = "done" /\ Solutions /= {}) => result.kind = "dict"

(* C3 *)

\* C3: ac3 terminates on every input: it eventually returns True or False.
C3_Ac3Terminates == <>(ac3ret /= "pending")

(* C4 *)

\* C4: when ac3 returned False inside solve, solve returns None.
C4_Ac3FalseGivesNone ==
    (pc = "done" /\ ac3ret = "False") => result = ReturnNone

\* solve returned after an ac3 pass that returned False
C4_Witness ==
    /\ pc = "done"
    /\ ac3ret = "False"
    /\ \E v \in slots : domains[v] = {}

(* C5 *)

\* C5: whenever ac3 returned True, every slot's domain is non-empty.
C5_Ac3TrueNoEmptyDomain ==
    ac3ret = "True" => \A v \in slots : domains[v] /= {}

(* C6 *)

\* C6: when ac3, started from all arcs, returned True, the domain store is
\* arc consistent.
C6_Ac3TrueArcConsistent ==
    ac3ret = "True" => ArcConsistent

\* ac3 returned True after removing a word from some domain, leaving no
\* domain empty
C6_Witness ==
    /\ ac3ret = "True"
    /\ \E v \in slots : domains[v] /= NodeFilter(v, words)
    /\ \A v \in slots : domains[v] /= {}

(* C7 *)

\* the three clauses of a consistent assignment, stated from the grid alone
LengthClause(a) == \A v \in DOMAIN a : Len(a[v]) = v.length

DistinctClause(a) == \A u, v \in DOMAIN a : u /= v => a[u] /= a[v]

OverlapClause(a) ==
    \A u, v \in DOMAIN a :
        (u /= v /\ Overlap(u, v) /= None) =>
            /\ InRange(a[u], Overlap(u, v)[1])
            /\ InRange(a[v], Overlap(u, v)[2])
            /\ a[u][Overlap(u, v)[1] + 1] = a[v][Overlap(u, v)[2] + 1]

\* C7: for every assignment, also one with words of the wrong length,
\* consistent returns a boolean that is True exactly when the length, the
\* distinctness and the overlap clause all hold.
C7_ConsistentDecides ==
    pc = "consistent_done" =>
        /\ cons \in {"True", "False"}
        /\ cons = "True" <=>
               (LengthClause(assignment) /\ DistinctClause(assignment)
                    /\ OverlapClause(assignment))

(* C8 *)

\* C8: a revise(x, y) call keeps a word w of domains[x] iff x and y do not
\* overlap or some word of domains[y] agrees with w at the overlap offsets,
\* returns True iff domains[x] changed, and changes no other slot's domain.
C8_ReviseExact ==
    [][(pc = "ac3_loop" /\ arcs /= <<>>) =>
        LET x == arcs[Len(arcs)][1]
            y == arcs[Len(arcs)][2]
            kept == {w \in domains[x] :
                        \/ Overlap(x, y) = None
                        \/ \E v \in domains[y] :
                               w[Overlap(x, y)[1] + 1] = v[Overlap(x, y)[2] + 1]}
        IN  /\ domains'[x] = kept
            /\ rev' = {[x |-> x, y |-> y, ret |-> (domains'[x] /= domains[x])]}
            /\ \A v \in slots \ {x} : domains'[v] = domains[v]]_vars

\* a revise call removed some words of a domain and kept others
C8_Witness ==
    \E r \in rev : r.ret /\ domains[r.x] /= {}

(* C9 *)

\* C9: every domain is a subset of the vocabulary in every state, and no step
\* of solve adds a word to a domain.
C9_DomainsOnlyShrink ==
    /\ [](\A v \in slots : domains[v] \subseteq words)
    /\ [][\A v \in slots : domains'[v] \subseteq domains[v]]_vars

\* solve returned after both the length filter and revise removed words
C9_Witness ==
    /\ pc = "done"
    /\ \E v \in slots :
           /\ NodeFilter(v, words) /= words
           /\ domains[v] /= NodeFilter(v, words)

(* C10 *)

\* C10: after enforce_node_consistency every word of every domain has its
\* slot's length, in every later state of solve, and the filter removed no
\* word of matching length.
C10_NodeConsistent ==
    /\ pc /= "node" =>
           \A v \in slots : \A w \in domains[v] : Len(w) = v.length
    /\ pc = "ac3_begin" =>
           \A v \in slots : \A w \in words : Len(w) = v.length => w \in domains[v]

\* the filter removed a word and kept another
C10_Witness ==
    /\ pc = "ac3_begin"
    /\ \E v \in slots : domains[v] /= words /\ domains[v] /= {}

(* C11 *)

\* the number of neighbours of slot v
Degree(v) == Cardinality({u \in slots : u /= v /\ Overlap(u, v) /= None})

\* C11: select_unassigned_variable, called with an incomplete assignment,
\* returns a slot that is not in the assignment, whose domain is smallest
\* among the unassigned slots and whose degree is largest among the
\* unassigned slots with a domain of that size.
C11_SelectorMrvDegree ==
    [][(pc = "bt_call" /\ ~AssignmentComplete(assignment)) =>
        /\ pc' = "bt_loop"
        /\ LET v == stack'[Len(stack')].var
               unassigned == slots \ DOMAIN assignment
           IN  /\ v \in unassigned
               /\ \A u \in unassigned :
                      Cardinality(domains[v]) <= Cardinality(domains[u])
               /\ \A u \in unassigned :
                      Cardinality(domains[u]) = Cardinality(domains[v])
                          => Degree(u) <= Degree(v)]_vars

\* a slot was just selected where another unassigned slot had a domain of the
\* same size and a lower degree
C11_Witness ==
    /\ pc = "bt_loop"
    /\ stack /= <<>>
    /\ Top.rest = domains[Top.var]
    /\ \E u \in slots \ DOMAIN Top.entry :
           /\ u /= Top.var
           /\ Cardinality(domains[u]) = Cardinality(domains[Top.var])
           /\ Degree(u) < Degree(Top.var)

(* C12 *)

\* the rule-out count of word w for slot var under assignment a: the pairs
\* (n, v) of a neighbour n of var outside a and a word v of domains[n] that
\* disagrees with w on the shared cell
RuleOutCount(var, w, a) ==
    Cardinality(UNION {{<<n, v>> : v \in {u \in domains[n] :
                            u[Overlap(n, var)[1] + 1] /= w[Overlap(n, var)[2] + 1]}} :
                       n \in {m \in slots \ DOMAIN a :
                                  m /= var /\ Overlap(m, var) /= None}})

\* C12: the values of order_domain_values(var, assignment) are the words of
\* domains[var], each once, in an order of non-decreasing rule-out count,
\* where assigned neighbours count nothing: the loop starts with every word
\* of the domain untried and rule_out_per_word equal to the rule-out count,
\* and each pass takes an untried word whose count is the lowest among the
\* untried ones.
C12_ValuesByRuleOut ==
    [][/\ (pc = "bt_call" /\ pc' = "bt_loop") =>
              LET new == stack'[Len(stack')]
              IN  /\ new.rest = domains[new.var]
                  /\ \A w \in domains[new.var] :
                         new.cnt[w] = RuleOutCount(new.var, w, assignment)
       /\ (pc = "bt_loop" /\ Top.rest /= {}) =>
              LET var == Top.var
                  w == assignment'[var]
              IN  /\ w \in Top.rest
                  /\ stack'[Len(stack)].rest = Top.rest \ {w}
                  /\ \A u \in Top.rest :
                         RuleOutCount(var, w, Top.entry)
                             <= RuleOutCount(var, u, Top.entry)]_vars

\* a loop tried a word and has others left; its slot has an assigned
\* neighbour whose domain holds a word that disagrees with a word of the slot
C12_Witness ==
    /\ pc = "bt_loop"
    /\ stack /= <<>>
    /\ Top.rest /= {}
    /\ Top.rest /= domains[Top.var]
    /\ \E n \in Neighbors(Top.var) :
           /\ n \in DOMAIN Top.entry
           /\ \E v \in domains[n] : \E w \in domains[Top.var] :
                  v[Overlap(n, Top.var)[1] + 1] /= w[Overlap(n, Top.var)[2] + 1]

(* C13 *)

\* C13: whenever a backtrack call returns None, the assignment is exactly
\* what it was when the call was entered, also when consistency checks of the
\* call failed.
C13_UndoExact ==
    [][(pc = "bt_loop" /\ pc' = "bt_ret" /\ ret'.kind = "None")
           => assignment' = Top.entry]_vars

(* C14 *)

\* C14: ac3 adds arcs to the queue only after a revision: when revise(x, y)
\* left domains[x] unchanged, the queue after the pass is the queue without
\* the popped arc.
C14_RequeueOnlyAfterRevision ==
    [][(pc = "ac3_loop" /\ arcs /= <<>>
            /\ domains'[arcs[Len(arcs)][1]] = domains[arcs[Len(arcs)][1]])
           => arcs' = SubSeq(arcs, 1, Len(arcs) - 1)]_vars

(* C18 *)

\* C18: the slots selected by the active frames of backtrack are pairwise
\* distinct, so the frames that selected a slot are never more than the slots.
C18_DepthBounded ==
    /\ \A k, l \in 1..Len(stack) : k /= l => stack[k].var /= stack[l].var
    /\ Len(stack) <= Cardinality(slots)

\* on a grid of three slots every slot is selected by an active frame
C18_Witness ==
    /\ Cardinality(slots) = 3
    /\ Len(stack) = 3

(* C19 *)

\* C19: whenever backtrack goes on to select_unassigned_variable, a slot is
\* absent from the assignment, the selection succeeds, and the selected slot
\* is not in the assignment.
C19_SelectorPrecondition ==
    [][(pc = "bt_call" /\ pc' /= "bt_ret") =>
           /\ \E v \in slots : v \notin DOMAIN assignment
           /\ pc' = "bt_loop"
           /\ Len(stack') = Len(stack) + 1
           /\ stack'[Len(stack')].var \notin DOMAIN assignment]_vars

\* a slot was just selected while the assignment held other slots, one of
\* them left behind by a call that returned None
C19_Witness ==
    /\ pc = "bt_loop"
    /\ stack /= <<>>
    /\ Top.rest = domains[Top.var]
    /\ \E v \in DOMAIN Top.entry : \A k \in 1..Len(stack) : stack[k].var /= v

(* C15 *)

\* C15: a list handed to ac3, the empty list included, is the initial queue
\* exactly; all arcs are used only when the argument is None.
C15_ArcsArgumentKept ==
    [][pc = "ac3_call" => arcs' = arcs]_vars

(* C16 *)

\* the store ac3 starts from: the words of the vocabulary that fit each slot
StartStore == [v \in slots |-> {w \in words : Len(w) = v.length}]

\* every slot keeps the words that agree, on the shared cell, with some word
\* of each of its neighbours
Supported(dom) ==
    [v \in slots |->
        {w \in dom[v] : \A n \in Neighbors(v) : \E u \in dom[n] :
             w[Overlap(v, n)[1] + 1] = u[Overlap(v, n)[2] + 1]}]

\* the fixpoint of arc consistency below a store
RECURSIVE Fixpoint(_)
Fixpoint(dom) == IF Supported(dom) = dom THEN dom ELSE Fixpoint(Supported(dom))

\* C16: whatever the order in which arcs are taken from the queue, the result
\* of ac3 and, when it is True, the final domains are determined by the
\* starting store alone: True leaves the fixpoint of arc consistency below the
\* starting store, and False is returned exactly when that fixpoint empties a
\* domain that was not empty.
C16_OrderIndependent ==
    (pc = "bt_call") =>
        /\ ac3ret = "True" => domains = Fixpoint(StartStore)
        /\ ac3ret = "False" <=>
               \E v \in slots : StartStore[v] /= {} /\ Fixpoint(StartStore)[v] = {}

\* ac3 returned True after a revision that had to be passed on: the fixpoint
\* is not reached by one sweep over the starting store
C16_Witness ==
    /\ pc = "bt_call"
    /\ ac3ret = "True"
    /\ domains /= Supported(StartStore)

(* C17 *)

\* C17: when ac3 returned True, a second run of ac3 changes no domain and
\* returns True.
C17_Idempotent ==
    [][/\ pc = "ac3_loop_again" => domains' = domains
       /\ pc' = "ac3_twice" => ac3ret' = "True"]_vars

\* the second run returned, and the first run had removed words
C17_Witness ==
    /\ pc = "ac3_twice"
    /\ \E v \in slots : domains[v] /= {} /\ domains[v] /= StartStore[v]

====
